---- MODULE Spec2Model ----
(***************************************************************************)
(* Model of ssm-env (src/main.rs): parse the command line, fetch          *)
(* parameters from the parameter store (GetParameters for the --export    *)
(* names, GetParametersByPath for each --export-path), build the child's  *)
(* environment, spawn the utility, wait for it and exit with its code.    *)
(*                                                                         *)
(* Strings that the program inspects (names, paths, ENV[=PARAM] tokens)   *)
(* are sequences of one-character strings.  Values are opaque to the      *)
(* program; each delivered value is tagged with the key it belongs to and *)
(* the request that delivered it, so that every overwrite is observable.  *)
(* Option<T> is a sequence of length at most one: None is << >>.          *)
(***************************************************************************)
EXTENDS Integers, Sequences, FiniteSets, TLC

VARIABLES
    export,       \* args.export: the parsed ENV[=PARAM] tokens
    export_path,  \* args.export_path
    ignore,       \* args.ignore
    inherited,    \* the tool's own environment, read when the child is spawned
    pc,           \* position in main
    params,       \* the Vec of (name, value) pairs handed to cmd.envs
    nparams,      \* length of params after the GetParameters phase
    pathIdx,      \* index of the next path of the for loop
    requests,     \* requests sent to the store so far, with their outcome
    namesResp,    \* the parameters of the GetParameters response
    listings,     \* per path: the store's listing and the page it delivered
    child,        \* "none", "running" or "done"
    childEnv,     \* the environment the child was spawned with
    status,       \* the child's ExitStatus once waited for
    error,        \* the Err main returned, if any
    toolExit,     \* the tool's exit code once it terminated
    fPath, fParam, fOut  \* input and output of filter_export_path applied alone

vars == <<export, export_path, ignore, inherited,
          pc, params, nparams, pathIdx, requests, namesResp, listings,
          child, childEnv, status, error, toolExit,
          fPath, fParam, fOut>>

----------------------------------------------------------------------------
(* Bounds *)

MaxArgs == 2
MaxLen == 3

----------------------------------------------------------------------------
(* Option and string helpers *)

None == << >>
Some(x) == <<x>>

SeqsUpTo(S, n) == UNION {[1..k -> S] : k \in 0..n}

Range(s) == {s[k] : k \in 1..Len(s)}

ends_with(s, c) == Len(s) > 0 /\ s[Len(s)] = c

starts_with(s, p) == Len(p) <= Len(s) /\ SubSeq(s, 1, Len(p)) = p

strip_prefix(s, p) ==
    IF starts_with(s, p) THEN Some(SubSeq(s, Len(p) + 1, Len(s))) ELSE None

unwrap_or(o, d) == IF o = None THEN d ELSE o[1]

split_once(s, c) ==
    LET hits == {k \in 1..Len(s) : s[k] = c}
    IN  IF hits = {} THEN None
        ELSE LET k == CHOOSE h \in hits : \A g \in hits : h <= g
             IN  Some(<<SubSeq(s, 1, k - 1), SubSeq(s, k + 1, Len(s))>>)

----------------------------------------------------------------------------
(* Command line *)

from_str(s) ==
    LET sp == split_once(s, "=")
    IN  IF sp # None
        THEN [env |-> sp[1][1], param |-> Some(sp[1][2])]
        ELSE [env |-> s, param |-> None]

parameter_names(ex) ==
    [k \in 1..Len(ex) |-> unwrap_or(ex[k].param, ex[k].env)]

export_names(ex) ==
    LET withParam == {k \in 1..Len(ex) : ex[k].param # None}
        last(p) == CHOOSE k \in withParam :
                     /\ ex[k].param[1] = p
                     /\ \A j \in withParam : ex[j].param[1] = p => j <= k
    IN  [p \in {ex[k].param[1] : k \in withParam} |-> ex[last(p)].env]

ExportArgs ==
    { <<"A">>, <<"A", "=", "K">>, <<"B", "=", "K">>, <<"=", "K">> }

PathArgs == { <<"/", "p">>, <<"/", "p", "/">> }

CommandLines ==
    {cl \in SeqsUpTo(ExportArgs, MaxArgs) \X SeqsUpTo(PathArgs, MaxArgs) :
        Len(cl[1]) + Len(cl[2]) <= MaxArgs}

ChildCodes == {0, 7, 256, -1}

----------------------------------------------------------------------------
(* Parameter store responses *)

Parameter(n, v) == [name |-> n, value |-> v]

Value(k, req) == [of |-> k, req |-> req]

NamesShapes(k, req) ==
    { Parameter(Some(k), Some(Value(k, req))),
      Parameter(Some(k), None),
      Parameter(None, Some(Value(k, req))) }

ValuelessKeys == { <<"/", "p", "/", "B">> }

PathShapes(k, req) ==
    { Parameter(Some(k), Some(Value(k, req))) }
    \cup (IF k \in ValuelessKeys THEN { Parameter(Some(k), None) } ELSE {})

Orderings(keys) ==
    {o \in SeqsUpTo(keys, Cardinality(keys)) :
        \A a, b \in 1..Len(o) : a # b => o[a] # o[b]}

NamesResponses(keys, req) ==
    UNION { {r \in [1..Len(o) -> UNION {NamesShapes(k, req) : k \in keys}] :
                \A j \in 1..Len(o) : r[j] \in NamesShapes(o[j], req)}
            : o \in Orderings(keys) }

PathListings(keys, req) ==
    UNION { {r \in [1..Len(o) -> UNION {PathShapes(k, req) : k \in keys}] :
                \A j \in 1..Len(o) : r[j] \in PathShapes(o[j], req)}
            : o \in Orderings(keys) }

EmptyEnv == [n \in {} |-> Value(n, 0)]

InheritedEnvs ==
    { [n \in {<<"A">>, <<"H">>} |-> Value(n, 0)], [n \in {<<"H">>} |-> Value(n, 0)] }

PathKeys == { <<"/", "p", "/", "A">>, <<"/", "p", "/", "B">> }

Normalize(path) == IF ends_with(path, "/") THEN path ELSE path \o <<"/">>

KeysUnder(path) == {k \in PathKeys : starts_with(k, Normalize(path))}

----------------------------------------------------------------------------
(* Name rewriting *)

filter_export_default_value(param, exports) ==
    IF param.name # None
    THEN LET name == param.name[1]
         IN  Some(<<IF name \in DOMAIN exports THEN exports[name] ELSE name,
                    unwrap_or(param.value, Value(name, 1))>>)
    ELSE None

filter_export(param, exports) ==
    IF param.name # None /\ param.value # None
    THEN LET name == param.name[1]
         IN  Some(<<IF name \in DOMAIN exports THEN exports[name] ELSE name,
                    param.value[1]>>)
    ELSE None

filter_export_path_no_normalize(param, path) ==
    IF param.name # None /\ param.value # None
    THEN LET name == param.name[1]
         IN  Some(<<unwrap_or(strip_prefix(name, path), name), param.value[1]>>)
    ELSE None

filter_export_path(param, path) ==
    IF param.name # None /\ param.value # None
    THEN LET name == param.name[1]
             prefix == IF ends_with(path, "/") THEN path ELSE path \o <<"/">>
         IN  Some(<<unwrap_or(strip_prefix(name, prefix), name), param.value[1]>>)
    ELSE None

RECURSIVE FilterMapExport(_, _)
FilterMapExport(resp, exports) ==
    IF resp = << >> THEN << >>
    ELSE filter_export(Head(resp), exports) \o FilterMapExport(Tail(resp), exports)

RECURSIVE FilterMapPath(_, _)
FilterMapPath(resp, path) ==
    IF resp = << >> THEN << >>
    ELSE filter_export_path(Head(resp), path) \o FilterMapPath(Tail(resp), path)

----------------------------------------------------------------------------
(* Child environment and exit code *)

env_insert_keep_first(e, kv) ==
    IF kv[1] \in DOMAIN e THEN e
    ELSE [n \in DOMAIN e \cup {kv[1]} |-> IF n = kv[1] THEN kv[2] ELSE e[n]]

env_insert(e, kv) ==
    [n \in DOMAIN e \cup {kv[1]} |-> IF n = kv[1] THEN kv[2] ELSE e[n]]

RECURSIVE envs(_, _)
envs(e, ps) ==
    IF ps = << >> THEN e ELSE envs(env_insert(e, Head(ps)), Tail(ps))

BuildEnv_never_clears(ign, inh, ps) == envs(inh, ps)

BuildEnv(ign, inh, ps) == envs(IF ign THEN EmptyEnv ELSE inh, ps)

exit_code_truncating(st) == unwrap_or(st, 1) % 256

exit_code(st) ==
    LET code == unwrap_or(st, 1)
    IN  IF 0 <= code /\ code <= 255 THEN code ELSE 1

----------------------------------------------------------------------------
(* The run of main *)

Init ==
    /\ \E cl \in CommandLines :
          /\ export = [k \in 1..Len(cl[1]) |-> from_str(cl[1][k])]
          /\ export_path = cl[2]
    /\ ignore \in BOOLEAN
    /\ inherited = EmptyEnv
    /\ pc = "start"
    /\ params = << >>
    /\ nparams = 0
    /\ pathIdx = 1
    /\ requests = << >>
    /\ namesResp = << >>
    /\ listings = << >>
    /\ child = "none"
    /\ childEnv = EmptyEnv
    /\ status = None
    /\ error = None
    /\ toolExit = None
    /\ fPath = << >>
    /\ fParam = Parameter(None, None)
    /\ fOut = << >>

Args == <<export, export_path, ignore>>
Pure == <<fPath, fParam, fOut>>

Request(op, arg, ok) == [op |-> op, arg |-> arg, ok |-> ok]

Fail(e) ==
    /\ pc' = "failed"
    /\ error' = Some(e)
    /\ toolExit' = Some(1)

NoNames ==
    /\ pc = "start"
    /\ parameter_names(export) = << >>
    /\ pc' = "paths"
    /\ UNCHANGED <<Args, Pure, inherited, params, nparams, pathIdx, requests,
                   namesResp, listings, child, childEnv, status, error, toolExit>>

GetParametersOk ==
    /\ pc = "start"
    /\ parameter_names(export) # << >>
    /\ \E resp \in NamesResponses(Range(parameter_names(export)),
                                  Len(requests) + 1) :
          /\ namesResp' = resp
          /\ params' = params \o FilterMapExport(resp, export_names(export))
    /\ nparams' = Len(params')
    /\ requests' = Append(requests,
                          Request("GetParameters", parameter_names(export), TRUE))
    /\ pc' = "paths"
    /\ UNCHANGED <<Args, Pure, inherited, pathIdx, listings, child, childEnv,
                   status, error, toolExit>>

GetParametersErr ==
    /\ pc = "start"
    /\ parameter_names(export) # << >>
    /\ requests' = Append(requests,
                          Request("GetParameters", parameter_names(export), FALSE))
    /\ Fail("GetParameters")
    /\ UNCHANGED <<Args, Pure, inherited, params, nparams, pathIdx, namesResp,
                   listings, child, childEnv, status>>

GetParametersByPathOk ==
    /\ pc = "paths"
    /\ pathIdx <= Len(export_path)
    /\ LET path == export_path[pathIdx]
       IN  \E all \in PathListings(KeysUnder(path), Len(requests) + 1) :
           \E n \in 0..Len(all) :
              /\ (all # << >>) => n >= 1
              /\ listings' = Append(listings,
                                    [path |-> path, all |-> all,
                                     parameters |-> SubSeq(all, 1, n),
                                     next_token |-> IF n < Len(all)
                                                    THEN Some(n) ELSE None])
              /\ params' = params \o FilterMapPath(SubSeq(all, 1, n), path)
              /\ requests' = Append(requests,
                                    Request("GetParametersByPath", path, TRUE))
    /\ pathIdx' = pathIdx + 1
    /\ UNCHANGED <<Args, Pure, inherited, pc, nparams, namesResp, child, childEnv,
                   status, error, toolExit>>

GetParametersByPathErr_swallowed ==
    /\ pc = "paths"
    /\ pathIdx <= Len(export_path)
    /\ requests' = Append(requests,
                          Request("GetParametersByPath", export_path[pathIdx], FALSE))
    /\ listings' = Append(listings,
                          [path |-> export_path[pathIdx], all |-> << >>,
                           parameters |-> << >>, next_token |-> None])
    /\ pathIdx' = pathIdx + 1
    /\ UNCHANGED <<Args, Pure, inherited, pc, params, nparams, namesResp, child,
                   childEnv, status, error, toolExit>>

GetParametersByPathErr ==
    /\ pc = "paths"
    /\ pathIdx <= Len(export_path)
    /\ requests' = Append(requests,
                          Request("GetParametersByPath", export_path[pathIdx], FALSE))
    /\ Fail("GetParametersByPath")
    /\ UNCHANGED <<Args, Pure, inherited, params, nparams, pathIdx, namesResp,
                   listings, child, childEnv, status>>

SpawnOk ==
    /\ pc = "paths"
    /\ pathIdx > Len(export_path)
    /\ inherited' \in InheritedEnvs
    /\ childEnv' = BuildEnv(ignore, inherited', params)
    /\ child' = "running"
    /\ pc' = "waiting"
    /\ UNCHANGED <<Args, Pure, params, nparams, pathIdx, requests, namesResp,
                   listings, status, error, toolExit>>

SpawnErr ==
    /\ pc = "paths"
    /\ pathIdx > Len(export_path)
    /\ Fail("spawn")
    /\ UNCHANGED <<Args, Pure, inherited, params, nparams, pathIdx, requests,
                   namesResp, listings, child, childEnv, status>>

WaitOk ==
    /\ pc = "waiting"
    /\ \E st \in {Some(c) : c \in ChildCodes} \cup {None} :
          /\ status' = Some(st)
          /\ toolExit' = Some(exit_code(st))
    /\ child' = "done"
    /\ pc' = "exited"
    /\ UNCHANGED <<Args, Pure, inherited, params, nparams, pathIdx, requests,
                   namesResp, listings, childEnv, error>>

WaitErr ==
    /\ pc = "waiting"
    /\ Fail("wait")
    /\ UNCHANGED <<Args, Pure, inherited, params, nparams, pathIdx, requests,
                   namesResp, listings, child, childEnv, status>>

Next ==
    \/ NoNames
    \/ GetParametersOk
    \/ GetParametersErr
    \/ GetParametersByPathOk
    \/ GetParametersByPathErr
    \/ SpawnOk
    \/ SpawnErr
    \/ WaitOk
    \/ WaitErr

Spec == Init /\ [][Next]_vars

----------------------------------------------------------------------------
(* filter_export_path applied alone, to one parameter and one path, and to *)
(* the same path written with one more trailing '/'.                       *)

Alphabet == {"/", "a"}

PureParams ==
    LET keys == SeqsUpTo(Alphabet, MaxLen + 1)
    IN  {Parameter(Some(k), Some(Value(k, 1))) : k \in keys}
          \cup {Parameter(Some(k), None) : k \in keys}
          \cup {Parameter(None, Some(Value(<< >>, 1)))}

PureInit ==
    /\ fPath \in SeqsUpTo(Alphabet, MaxLen)
    /\ fParam \in PureParams
    /\ fOut = << >>
    /\ pc = "pure"
    /\ export = << >>
    /\ export_path = << >>
    /\ ignore = FALSE
    /\ inherited = EmptyEnv
    /\ params = << >>
    /\ nparams = 0
    /\ pathIdx = 1
    /\ requests = << >>
    /\ namesResp = << >>
    /\ listings = << >>
    /\ child = "none"
    /\ childEnv = EmptyEnv
    /\ status = None
    /\ error = None
    /\ toolExit = None

ApplyFilterExportPath ==
    /\ pc = "pure"
    /\ fOut' = <<filter_export_path(fParam, fPath),
                 filter_export_path(fParam, fPath \o <<"/">>)>>
    /\ pc' = "applied"
    /\ UNCHANGED <<Args, fPath, fParam, inherited, params, nparams, pathIdx,
                   requests, namesResp, listings, child, childEnv, status,
                   error, toolExit>>

PureNext == ApplyFilterExportPath

PureSpec == PureInit /\ [][PureNext]_vars

----------------------------------------------------------------------------
(* Vocabulary of the properties *)

Names == parameter_names(export)

Spawned == child # "none"

Complete(e) == e.name # None /\ e.value # None

Written == {params[j][1] : j \in 1..Len(params)}

LastWrite(n) ==
    CHOOSE j \in 1..Len(params) :
        /\ params[j][1] = n
        /\ \A i \in 1..Len(params) : params[i][1] = n => i <= j

NamesRequests == IF Names # << >> THEN 1 ELSE 0

BeginsWith(key, prefix) ==
    \E m \in 0..Len(key) : SubSeq(key, 1, m) = prefix

After(key, prefix) == SubSeq(key, Len(prefix) + 1, Len(key))

WithSlash(path) ==
    IF path # << >> /\ path[Len(path)] = "/" THEN path ELSE path \o <<"/">>

----------------------------------------------------------------------------
(* C1 as stated: once the child was spawned and terminated, the tool's    *)
(* exit code is the child's exit code for every code the child reports,   *)
(* and 1 when the child was killed by a signal.                           *)
C1_ExitCodeVerbatim ==
    pc = "exited" =>
        LET st == status[1]
        IN  IF st # None THEN toolExit = Some(st[1]) ELSE toolExit = Some(1)

(* C1 amended: the tool's exit code is the child's exit code when that    *)
(* code lies in 0..255, and 1 when the child was killed by a signal or    *)
(* reported a code outside 0..255.                                        *)
C1_ExitCodeWithinU8 ==
    pc = "exited" =>
        LET st == status[1]
        IN  IF st # None /\ st[1] \in 0..255
            THEN toolExit = Some(st[1])
            ELSE toolExit = Some(1)

C1_Witness ==
    pc = "exited" /\ status = Some(Some(7)) /\ toolExit = Some(7)

(* C2: the child is spawned only after the GetParameters request (when    *)
(* there are names) and one GetParametersByPath request per path, in      *)
(* command-line order, have all succeeded; once any request has failed    *)
(* the tool has terminated with a non-zero code and no child exists.      *)
C2_RequestsBeforeSpawn ==
    /\ Spawned =>
          /\ Len(requests) = NamesRequests + Len(export_path)
          /\ \A r \in 1..Len(requests) : requests[r].ok
          /\ Names # << >> =>
                requests[1].op = "GetParameters" /\ requests[1].arg = Names
          /\ \A i \in 1..Len(export_path) :
                /\ requests[NamesRequests + i].op = "GetParametersByPath"
                /\ requests[NamesRequests + i].arg = export_path[i]
    /\ (\E r \in 1..Len(requests) : ~requests[r].ok) =>
          /\ ~Spawned
          /\ pc = "failed"
          /\ toolExit # None /\ toolExit[1] # 0

C2_Witness ==
    /\ Spawned
    /\ Len(requests) = 2
    /\ requests[1].op = "GetParameters"
    /\ requests[2].op = "GetParametersByPath"

(* C3 as stated, on the command lines where no two writes can meet (the   *)
(* exports name pairwise distinct variables and no path is given): for    *)
(* every export ENV[=PARAM] whose store key is returned with a value v,   *)
(* the child's environment has ENV = v.                                   *)
C3_ExportedUnderEnv ==
    ( /\ Spawned
      /\ export_path = << >>
      /\ \A a, b \in 1..Len(export) : a # b => export[a].env # export[b].env )
    => \A i \in 1..Len(export) : \A g \in 1..Len(namesResp) :
          (Complete(namesResp[g]) /\ namesResp[g].name[1] = Names[i]) =>
              /\ export[i].env \in DOMAIN childEnv
              /\ childEnv[export[i].env] = namesResp[g].value[1]

(* C4: with --ignore the child's environment is exactly the resolved      *)
(* parameters; without it the child's environment is the inherited one    *)
(* plus the resolved parameters, an inherited variable keeping its value  *)
(* unless a resolved parameter has its name, and then taking the resolved *)
(* value.                                                                 *)
C4_IgnoreAndInherit ==
    Spawned =>
        /\ ignore =>
              /\ DOMAIN childEnv = Written
              /\ \A n \in Written :
                    \E j \in 1..Len(params) : params[j] = <<n, childEnv[n]>>
        /\ ~ignore =>
              /\ DOMAIN childEnv = DOMAIN inherited \cup Written
              /\ \A n \in DOMAIN inherited :
                    IF n \in Written
                    THEN \E j \in 1..Len(params) : params[j] = <<n, childEnv[n]>>
                    ELSE childEnv[n] = inherited[n]
              /\ \A n \in Written : childEnv[n].req > 0

C4_Witness ==
    /\ Spawned
    /\ ignore
    /\ <<"A">> \in DOMAIN inherited
    /\ <<"B">> \in Written
    /\ <<"A">> \notin DOMAIN childEnv

(* C5: for a parameter with a name and a value whose key begins with the  *)
(* path normalized to end in '/', the exported name is the key with that  *)
(* prefix removed; and a path not ending in '/' gives the same result as  *)
(* that path followed by '/'.                                             *)
C5_PathPrefixStripped ==
    pc = "applied" =>
        /\ (Complete(fParam) /\ BeginsWith(fParam.name[1], WithSlash(fPath))) =>
              fOut[1] = Some(<<After(fParam.name[1], WithSlash(fPath)),
                               fParam.value[1]>>)
        /\ (fPath = << >> \/ fPath[Len(fPath)] # "/") => fOut[2] = fOut[1]

C5_Witness ==
    /\ pc = "applied"
    /\ fPath = <<"/", "a">>
    /\ fParam.name = Some(<<"/", "a", "/", "a">>)
    /\ fParam.value # None
    /\ fOut[1] # None /\ fOut[1][1][1] = <<"a">>
    /\ fOut[2] = fOut[1]

(* C6: when the GetParameters response omits a requested key, or delivers *)
(* it without a name or without a value, the child is spawned all the     *)
(* same, nothing is written for that key, and every key that came back    *)
(* with a name and a value is written under a variable of an export of    *)
(* that key and is part of the child's environment.                       *)
C6_MissingKeyNotFatal ==
    (Spawned /\ Names # << >>) =>
        \A k \in Range(Names) :
            LET got == {g \in 1..Len(namesResp) :
                           Complete(namesResp[g]) /\ namesResp[g].name[1] = k}
            IN  /\ got = {} =>
                      /\ \A j \in 1..nparams : params[j][2].of # k
                      /\ \A n \in DOMAIN childEnv :
                            ~(childEnv[n].of = k /\ childEnv[n].req = 1)
                /\ \A g \in got :
                      \E j \in 1..nparams :
                          /\ params[j][2] = namesResp[g].value[1]
                          /\ params[j][1] \in
                                {export[i].env : i \in {h \in 1..Len(export) :
                                                          Names[h] = k}}
                          /\ params[j][1] \in DOMAIN childEnv

C6_Witness ==
    /\ Spawned
    /\ Cardinality(Range(Names)) = 2
    /\ Len(namesResp) = 1
    /\ Complete(namesResp[1])
    /\ nparams = 1
    /\ params[1][1] \in DOMAIN childEnv

(* C7 as stated: a run with no --export and no --export-path enumerates   *)
(* the parameter names and fetches them with GetParameters before the     *)
(* child is spawned.                                                      *)
C7_EnumerationFallback ==
    (Spawned /\ export = << >> /\ export_path = << >>) =>
        /\ \E r \in 1..Len(requests) :
              requests[r].op = "DescribeParameters" /\ requests[r].ok
        /\ \E r \in 1..Len(requests) :
              requests[r].op = "GetParameters" /\ requests[r].ok

(* C8 as stated: when the child is spawned, every parameter with a name   *)
(* and a value that the store lists under a requested path has been       *)
(* exported, whatever the page boundaries of the listing.                 *)
C8_AllPagesExported ==
    Spawned =>
        \A l \in 1..Len(listings) : \A g \in 1..Len(listings[l].all) :
            Complete(listings[l].all[g]) =>
                \E j \in 1..Len(params) :
                    /\ params[j][2] = listings[l].all[g].value[1]
                    /\ params[j][1] \in DOMAIN childEnv

(* C9 as stated: every name in the plan is non-empty and is the explicit  *)
(* ENV of an export of the key, or the key itself, or the key with the    *)
(* normalized path removed.                                               *)
C9_NamesResolvedNonEmpty ==
    \A j \in 1..Len(params) :
        LET name == params[j][1]
            key == params[j][2].of
        IN  /\ name # << >>
            /\ IF j <= nparams
               THEN \/ \E i \in 1..Len(export) :
                          export[i].param = Some(key) /\ export[i].env = name
                    \/ name = key
               ELSE \/ name = key
                    \/ WithSlash(requests[params[j][2].req].arg) \o name = key

(* C10: the child's environment holds, for every written name, the value  *)
(* of the last write; the writes are the GetParameters results in         *)
(* response order followed by the results of each path in command-line    *)
(* order.                                                                 *)
C10_LastWriteWins ==
    Spawned =>
        /\ \A n \in Written : childEnv[n] = params[LastWrite(n)][2]
        /\ \A i, j \in 1..Len(params) :
              i < j => params[i][2].req <= params[j][2].req
        /\ \A j \in 1..Len(params) :
              IF j <= nparams
              THEN /\ params[j][2].req = 1
                   /\ requests[1].op = "GetParameters"
              ELSE /\ requests[params[j][2].req].op = "GetParametersByPath"
                   /\ requests[params[j][2].req].arg =
                          export_path[params[j][2].req - NamesRequests]
        /\ \A i, j \in 1..nparams :
              i < j =>
                  \E a, b \in 1..Len(namesResp) :
                      /\ a < b
                      /\ namesResp[a].value = Some(params[i][2])
                      /\ namesResp[b].value = Some(params[j][2])

C10_Witness ==
    /\ Spawned
    /\ \E i, j \in 1..Len(params) :
          /\ i < j
          /\ params[i][1] = params[j][1]
          /\ params[i][2].req = 1
          /\ params[j][2].req = 2
          /\ childEnv[params[j][1]] = params[j][2]

====
